---- MODULE Spec2Model ----
(***************************************************************************)
(* FX dashboard backend: the gap-filling time-series retrieval pipeline    *)
(* (exchange/views.py TimeSeriesView, exchange/db_utils.py DatabaseManager,*)
(* exchange/cache_utils.py TTLCacheManager).                               *)
(*                                                                         *)
(* Calendar dates are day numbers 1..MaxDay; a date d + timedelta(days=1)  *)
(* is d + 1.  Rates are integers in units of 10^-7, so that the six        *)
(* decimal places of the stored DecimalField are a real rounding.          *)
(***************************************************************************)
EXTENDS Integers, Sequences, FiniteSets, TLC

\* ------------------------------------------------------------------ bounds
MaxDay == 3          \* calendar dates of the request pipeline are 1..MaxDay
MaxLen == 3          \* longest interval list handed to the range merger
MergeMaxDay == 5     \* calendar dates of the merger's inputs are 1..MergeMaxDay
MaxWriters == 2      \* concurrent calls of save_exchange_rate

Days == 1..MaxDay
Today == MaxDay      \* datetime.now().date()
NoDate == 0          \* the empty string of a date parameter that is not given

BaseCur == "EUR"
Targets == {"USD", "GBP"}

\* ---------------------------------------------------------------- helpers
Min(S) == CHOOSE x \in S : \A y \in S : x <= y
Max(S) == CHOOSE x \in S : \A y \in S : x >= y
Range(s) == {s[i] : i \in DOMAIN s}

\* dates covered by a list of (start, end) tuples
Covered(ranges) == UNION {ranges[i][1]..ranges[i][2] : i \in DOMAIN ranges}

\* Python's ordering of (start, end) tuples
TupleLeq(a, b) == a[1] < b[1] \/ (a[1] = b[1] /\ a[2] <= b[2])

RECURSIVE InsertSorted(_, _)
InsertSorted(x, s) ==
    IF s = <<>> THEN <<x>>
    ELSE IF TupleLeq(x, Head(s)) THEN <<x>> \o s
    ELSE <<Head(s)>> \o InsertSorted(x, Tail(s))

\* ranges.sort()
RECURSIVE SortRanges(_)
SortRanges(s) == IF s = <<>> THEN <<>> ELSE InsertSorted(Head(s), SortRanges(Tail(s)))

\* ------------------------------------------------------------ Range Merger
\* a test that reaches over one uncovered day
MutTouchesWide(start, current_end) == start <= current_end + 2

\* a test that forgets the day of adjacency
MutTouches(start, current_end) == start <= current_end

\* the test of views.py line 31: start <= current_end + timedelta(days=1)
Touches(start, current_end) == start <= current_end + 1

\* a loop that closes the accumulated interval after every merge
RECURSIVE MutMergeLoop(_, _, _, _)
MutMergeLoop(rest, current_start, current_end, merged_ranges) ==
    IF rest = <<>> THEN Append(merged_ranges, <<current_start, current_end>>)
    ELSE LET start == Head(rest)[1]
             end   == Head(rest)[2]
         IN  IF Touches(start, current_end) /\ Tail(rest) # <<>>
             THEN MutMergeLoop(Tail(Tail(rest)), Head(Tail(rest))[1], Head(Tail(rest))[2],
                               Append(merged_ranges,
                                      <<current_start,
                                        IF end > current_end THEN end ELSE current_end>>))
             ELSE IF Touches(start, current_end)
             THEN MutMergeLoop(Tail(rest), current_start,
                               IF end > current_end THEN end ELSE current_end,
                               merged_ranges)
             ELSE MutMergeLoop(Tail(rest), start, end,
                               Append(merged_ranges, <<current_start, current_end>>))

\* the loop of views.py lines 30-36 over the rest of the sorted list
RECURSIVE MergeLoop(_, _, _, _)
MergeLoop(rest, current_start, current_end, merged_ranges) ==
    IF rest = <<>> THEN Append(merged_ranges, <<current_start, current_end>>)
    ELSE LET start == Head(rest)[1]
             end   == Head(rest)[2]
         IN  IF Touches(start, current_end)
             THEN MergeLoop(Tail(rest), current_start,
                            IF end > current_end THEN end ELSE current_end,
                            merged_ranges)
             ELSE MergeLoop(Tail(rest), start, end,
                            Append(merged_ranges, <<current_start, current_end>>))

MergeOverlappingRanges(ranges) ==
    IF ranges = <<>> THEN <<>>
    ELSE LET sorted == SortRanges(ranges)
         IN  MergeLoop(Tail(sorted), Head(sorted)[1], Head(sorted)[2], <<>>)

\* -------------------------------------------------------------- Rate Store
\* A row of exchange_rates for base BaseCur: [target, date, rate].
\* ExchangeRate.rate is DecimalField(max_digits=12, decimal_places=6): a rate
\* in units of 10^-7 is kept rounded to a multiple of 10.
Quantize(rate) == ((rate + 5) \div 10) * 10

\* what the upstream API quotes for a target on a date
UpRate(t, d) == IF t = "USD" THEN 10000000 + 10 * d ELSE 8000000 + 10 * d + 4

RowsOf(rows, t, d) == {r \in rows : r.target = t /\ r.date = d}

\* a save that creates a row without looking for an existing one
MutSaveExchangeRate(rows, t, rate, d) ==
    rows \cup {[target |-> t, date |-> d, rate |-> Quantize(rate)]}

\* DatabaseManager.save_exchange_rate: update the existing row or create one
SaveExchangeRate(rows, t, rate, d) ==
    LET existing == RowsOf(rows, t, d)
    IN  IF existing # {}
        THEN LET existing_rate == CHOOSE r \in existing : TRUE
             IN  (rows \ {existing_rate})
                   \cup {[existing_rate EXCEPT !.rate = Quantize(rate)]}
        ELSE rows \cup {[target |-> t, date |-> d, rate |-> Quantize(rate)]}

\* rows of the base restricted to the targets (every target when none is asked)
TargetRows(rows, targets) ==
    IF targets # <<>> THEN {r \in rows : r.target \in Range(targets)} ELSE rows

\* a coverage check with strict comparisons
MutSpansStrict(rows, request_start, request_end) ==
    /\ rows # {}
    /\ Min({r.date : r \in rows}) < request_start
    /\ Max({r.date : r \in rows}) > request_end

\* a coverage check that forgets the upper bound
MutSpans(rows, request_start, request_end) ==
    /\ rows # {}
    /\ Min({r.date : r \in rows}) <= request_start

\* aggregate(Min('date'), Max('date')) spans the request
Spans(rows, request_start, request_end) ==
    /\ rows # {}
    /\ Min({r.date : r \in rows}) <= request_start
    /\ Max({r.date : r \in rows}) >= request_end

\* DatabaseManager.database_covers_range
DatabaseCoversRange(rows, target_currencies, request_start, request_end) ==
    IF target_currencies # <<>>
    THEN \A i \in DOMAIN target_currencies :
            Spans({r \in rows : r.target = target_currencies[i]},
                  request_start, request_end)
    ELSE Spans(rows, request_start, request_end)

\* the scan of db_utils.py lines 121-131
RECURSIVE SkipMissing(_, _, _)
SkipMissing(existing_dates, current_date, request_end) ==
    IF current_date <= request_end /\ current_date \notin existing_dates
    THEN SkipMissing(existing_dates, current_date + 1, request_end)
    ELSE current_date

RECURSIVE ScanMissing(_, _, _, _)
ScanMissing(existing_dates, current_date, request_end, missing_ranges) ==
    IF current_date > request_end THEN missing_ranges
    ELSE IF current_date \notin existing_dates
         THEN LET next == SkipMissing(existing_dates, current_date, request_end)
              IN  ScanMissing(existing_dates, next, request_end,
                              Append(missing_ranges, <<current_date, next - 1>>))
         ELSE ScanMissing(existing_dates, current_date + 1, request_end, missing_ranges)

\* a gap finder that returns every missing day as an interval of its own
MutDailyMissingDateRanges(rows, target_currency, request_start, request_end) ==
    LET missing == {d \in request_start..request_end :
                       \A x \in rows : ~(x.target = target_currency /\ x.date = d)}
        RECURSIVE Up(_)
        Up(d) == IF d > request_end THEN <<>>
                 ELSE IF d \in missing THEN <<<<d, d>>>> \o Up(d + 1)
                 ELSE Up(d + 1)
    IN  Up(request_start)

\* a gap finder that closes every run after its first day
MutFindMissingDateRanges(rows, target_currency, request_start, request_end) ==
    LET existing_dates == {r.date : r \in {x \in rows : /\ x.target = target_currency
                                                        /\ x.date >= request_start
                                                        /\ x.date <= request_end}}
    IN  IF existing_dates = {} THEN <<<<request_start, request_end>>>>
        ELSE LET pick == {d \in request_start..request_end :
                             /\ d \notin existing_dates
                             /\ (d = request_start \/ (d - 1) \in existing_dates)}
                 RECURSIVE Up(_)
                 Up(d) == IF d > request_end THEN <<>>
                          ELSE IF d \in pick THEN <<<<d, d>>>> \o Up(d + 1)
                          ELSE Up(d + 1)
             IN  Up(request_start)

\* DatabaseManager.find_missing_date_ranges
FindMissingDateRanges(rows, target_currency, request_start, request_end) ==
    LET existing_dates == {r.date : r \in {x \in rows : /\ x.target = target_currency
                                                        /\ x.date >= request_start
                                                        /\ x.date <= request_end}}
    IN  IF existing_dates = {} THEN <<<<request_start, request_end>>>>
        ELSE ScanMissing(existing_dates, request_start, request_end, <<>>)

\* the rates dictionary built from rows: date -> target -> float(rate)
RatesOf(rows) ==
    [d \in {r.date : r \in rows} |->
        [t \in {r.target : r \in {x \in rows : x.date = d}} |->
            (CHOOSE r \in rows : r.date = d /\ r.target = t).rate]]

\* the end of the requested interval: today when end_date is not given
EndOf(end_date) == IF end_date # NoDate THEN end_date ELSE Today

\* a lookup that returns the stored rows without asking the coverage checker
MutGetTimeSeriesData(rows, target_currencies, start_date, end_date) ==
    LET rates == {r \in TargetRows(rows, target_currencies) :
                     /\ r.date >= start_date
                     /\ (end_date # NoDate => r.date <= end_date)}
    IN  IF rates = {} THEN [kind |-> "none"]
        ELSE [kind |-> "full",
              data |-> [base |-> BaseCur, start_date |-> start_date,
                        end_date |-> EndOf(end_date), rates |-> RatesOf(rates)]]

\* DatabaseManager.get_time_series_data: "none", "full" (covered) or "partial"
GetTimeSeriesData(rows, target_currencies, start_date, end_date) ==
    LET request_start == start_date
        request_end   == EndOf(end_date)
        rates == {r \in TargetRows(rows, target_currencies) :
                     /\ r.date >= start_date
                     /\ (end_date # NoDate => r.date <= end_date)}
        db_data == [base |-> BaseCur, start_date |-> start_date,
                    end_date |-> EndOf(end_date), rates |-> RatesOf(rates)]
        asked == IF target_currencies # <<>> THEN Range(target_currencies)
                 ELSE {r.target : r \in rates}
        gaps(t) == FindMissingDateRanges(rows, t, request_start, request_end)
        missing_ranges == [t \in {x \in asked : gaps(x) # <<>>} |-> gaps(t)]
    IN  IF rates = {} THEN [kind |-> "none"]
        ELSE IF DatabaseCoversRange(rows, target_currencies, request_start, request_end)
        THEN [kind |-> "full", data |-> db_data]
        ELSE [kind |-> "partial", data |-> db_data, missing |-> missing_ranges]

\* ---------------------------------------------------------------- requests
VARIABLES store,      \* rows of exchange_rates for base BaseCur
          cache,      \* live cache entries: cache key -> payload
          upstream,   \* dates for which the upstream API has published rates
          last,       \* what the most recent TimeSeriesView.get did and returned
          mcall,      \* a call of _merge_overlapping_ranges: input and result
          gcall,      \* a call of the gap finder and coverage checker
          scall,      \* the most recent call of save_exchange_rate
          writers,    \* concurrent calls of save_exchange_rate: their locals
          clients,    \* concurrent calls of TimeSeriesView.get: their locals
          unsaved     \* points the latest request fetched and could not save

vars == <<store, cache, upstream, last, mcall, gcall, scall, writers, clients,
          unsaved>>

SymbolLists == {<<>>, <<"USD">>, <<"USD", "GBP">>}

\* request.GET of /timeseries/: start_date, end_date ('' = NoDate), symbols
Requests == {r \in [start_date : Days \cup {NoDate}, end_date : Days \cup {NoDate},
                    symbols : SymbolLists] :
                r.start_date # NoDate => r.start_date <= EndOf(r.end_date)}

\* TTLCacheManager.generate_cache_key: prefix and digest of the sorted parameters
GenerateCacheKey(prefix, params) == <<prefix, params>>

CacheParams(r) == [start_date |-> r.start_date, end_date |-> r.end_date,
                   base |-> BaseCur, symbols |-> r.symbols]

\* a lookup under a key that is never the one written
MutGetCachedData(cch, cache_key) == {}

\* TTLCacheManager.get_cached_data: the entry, or nothing
GetCachedData(cch, cache_key) ==
    IF cache_key \in DOMAIN cch THEN {cch[cache_key]} ELSE {}

\* a write that the cache drops
MutSetCachedData(cch, cache_key, data) == cch

\* TTLCacheManager.set_cached_data
SetCachedData(cch, cache_key, data) ==
    [k \in DOMAIN cch \cup {cache_key} |-> IF k = cache_key THEN data ELSE cch[k]]

\* ------------------------------------------------------------ upstream API
\* GET /v1/{lo}..{hi}?base=&symbols= : the rates of the published dates in the
\* interval (hi = NoDate: up to the latest), for the symbols (all when none)
UpstreamRates(pub, symbols, lo, hi) ==
    LET quoted == IF symbols # <<>> THEN Range(symbols) ELSE Targets
    IN  [d \in {x \in pub : x >= lo /\ (hi # NoDate => x <= hi)} |->
            [t \in quoted |-> UpRate(t, d)]]

\* the payload of api.frankfurter.dev/v1/{lo}..{hi} as response.json() yields
\* it: the amount the rates are quoted for, then base, dates and rates
UpstreamData(pub, symbols, lo, hi) ==
    [amount |-> 1, base |-> BaseCur, start_date |-> lo,
     end_date |-> IF hi # NoDate THEN hi ELSE Max(pub \cup {lo}),
     rates |-> UpstreamRates(pub, symbols, lo, hi)]

\* -------------------------------------------------------- partial fetching
\* a fetch loop that stops after the first merged range of a target
MutTargetCalls(target_currency, merged_ranges) ==
    IF merged_ranges = <<>> THEN <<>>
    ELSE <<[symbols |-> <<target_currency>>, lo |-> Head(merged_ranges)[1],
            hi |-> Head(merged_ranges)[2]]>>

\* the requests of views.py lines 79-95, in the order they are issued
RECURSIVE TargetCalls(_, _)
TargetCalls(target_currency, merged_ranges) ==
    IF merged_ranges = <<>> THEN <<>>
    ELSE <<[symbols |-> <<target_currency>>, lo |-> Head(merged_ranges)[1],
            hi |-> Head(merged_ranges)[2]]>>
         \o TargetCalls(target_currency, Tail(merged_ranges))

RECURSIVE CallsFor(_, _)
CallsFor(target_currencies, missing_ranges) ==
    IF target_currencies = <<>> THEN <<>>
    ELSE LET t == Head(target_currencies)
         IN  (IF t \in DOMAIN missing_ranges
              THEN TargetCalls(t, MergeOverlappingRanges(missing_ranges[t]))
              ELSE <<>>)
             \o CallsFor(Tail(target_currencies), missing_ranges)

\* a partial stage that asks for the whole interval of every target with a gap
MutPartialCalls(target_currencies, missing_ranges, request_start, request_end) ==
    IF target_currencies # <<>>
    THEN [i \in 1..Len(SelectSeq(target_currencies, LAMBDA t : t \in DOMAIN missing_ranges)) |->
            [symbols |-> <<SelectSeq(target_currencies,
                                     LAMBDA t : t \in DOMAIN missing_ranges)[i]>>,
             lo |-> request_start, hi |-> request_end]]
    ELSE <<[symbols |-> <<>>, lo |-> request_start, hi |-> request_end]>>

\* the requests of _fetch_and_merge_partial_data, views.py lines 78-95
PartialCalls(target_currencies, missing_ranges, request_start, request_end) ==
    IF target_currencies # <<>>
    THEN CallsFor(target_currencies, missing_ranges)
    ELSE <<[symbols |-> <<>>, lo |-> request_start, hi |-> request_end]>>

\* _fetch_and_merge_api_data: one request; on success its rates are merged in
FetchAndMergeApiData(merged_data, pub, call, ok) ==
    IF ~ok THEN merged_data
    ELSE LET api == UpstreamRates(pub, call.symbols, call.lo, call.hi)
             old == merged_data.rates
         IN  [merged_data EXCEPT
                !.rates = [d \in DOMAIN old \cup DOMAIN api |->
                             IF d \notin DOMAIN api THEN old[d]
                             ELSE IF d \notin DOMAIN old THEN api[d]
                             ELSE [t \in DOMAIN old[d] \cup DOMAIN api[d] |->
                                     IF t \in DOMAIN api[d] THEN api[d][t]
                                     ELSE old[d][t]]],
                !.fetched_dates = @ \cup DOMAIN api]

\* a fetch loop that gives up at the first request that fails
RECURSIVE MutFetchAll(_, _, _, _)
MutFetchAll(merged_data, pub, calls, down) ==
    IF calls = <<>> \/ Head(calls) \in down THEN merged_data
    ELSE MutFetchAll(FetchAndMergeApiData(merged_data, pub, Head(calls), TRUE),
                     pub, Tail(calls), down)

\* the fetch loop of views.py lines 79-95
RECURSIVE FetchAll(_, _, _, _)
FetchAll(merged_data, pub, calls, down) ==
    IF calls = <<>> THEN merged_data
    ELSE FetchAll(FetchAndMergeApiData(merged_data, pub, Head(calls),
                                       Head(calls) \notin down),
                  pub, Tail(calls), down)

\* _fetch_and_merge_partial_data
FetchAndMergePartialData(pub, partial_data, calls, down) ==
    FetchAll([base |-> partial_data.base, start_date |-> partial_data.start_date,
              end_date |-> partial_data.end_date, rates |-> partial_data.rates,
              fetched_dates |-> {}],
             pub, calls, down)

\* the (date, target, rate) points of a rates dictionary on the given dates
PointsOf(rates, dates) ==
    {[target |-> t, date |-> d, rate |-> rates[d][t]] :
        <<d, t>> \in {x \in (DOMAIN rates \cap dates) \X Targets : x[2] \in DOMAIN rates[x[1]]}}

KeysOf(points) == {<<p.target, p.date>> : p \in points}

\* a save loop that is left at the first save that raises
RECURSIVE MutAbortingSaveAll(_, _, _)
MutAbortingSaveAll(rows, points, lost) ==
    IF points = {} THEN rows
    ELSE LET p == CHOOSE x \in points : TRUE
         IN  IF <<p.target, p.date>> \in lost THEN rows
             ELSE MutAbortingSaveAll(SaveExchangeRate(rows, p.target, p.rate, p.date),
                                     points \ {p}, lost)

\* a save loop that leaves after its first point
MutSaveAll(rows, points, lost) ==
    IF points = {} THEN rows
    ELSE LET p == CHOOSE x \in points : TRUE
         IN  IF <<p.target, p.date>> \in lost THEN rows
             ELSE SaveExchangeRate(rows, p.target, p.rate, p.date)

\* the save loops of views.py lines 168-177 and 226-233; a save that raises
\* inside save_exchange_rate (the keys in lost) is logged and returns None
RECURSIVE SaveAll(_, _, _)
SaveAll(rows, points, lost) ==
    IF points = {} THEN rows
    ELSE LET p == CHOOSE x \in points : TRUE
         IN  SaveAll(IF <<p.target, p.date>> \in lost THEN rows
                     ELSE SaveExchangeRate(rows, p.target, p.rate, p.date),
                     points \ {p}, lost)

Envelope(merged_data) ==
    [base |-> merged_data.base, start_date |-> merged_data.start_date,
     end_date |-> merged_data.end_date, rates |-> merged_data.rates]

\* ------------------------------------------------------ TimeSeriesView.get
Cells == Targets \X Days

\* what goes wrong around one request: nothing, the cache read raises, the
\* cache writes raise, the store read raises, or the saves of the keys in
\* lost raise
NoFault == [kind |-> "none", lost |-> {}]

\* the saves that raise: those of one target, or all of them
LossCases == {{"GBP"} \X Days, Cells}

FaultCases ==
    {[kind |-> k, lost |-> {}] : k \in {"none", "cache_get", "cache_set", "db_read"}}
    \cup {[kind |-> "db_write", lost |-> l] : l \in LossCases}

LossFaults == {f \in FaultCases : f.kind \in {"none", "db_write"}}

NoMissing == [t \in {} |-> <<>>]

\* the locals of get() and its response: the exceptions raised by cache and
\* store, the cached payload, what the store lookup gave, the upstream
\* requests issued and those that failed, the keys handed to save_exchange_rate
\* and those whose save raised, the payload written to the cache, and status,
\* source tag, data and error of the response
Trace(r) == [req |-> r, raised |-> {}, cached |-> {}, db |-> "skipped",
               missing |-> NoMissing, calls |-> <<>>, failed |-> {}, saved |-> {},
             lost |-> {}, cacheSet |-> {}, status |-> 200, source |-> "none",
             data |-> {}, error |-> "", again |-> {}]

\* views.py line 158: the partial stage is entered
EntersPartial(result) ==
    /\ result.kind = "partial"
    /\ DOMAIN result.data.rates # {}
    /\ DOMAIN result.missing # {}

\* the single request of the full fallback fetch, views.py lines 207-219
FullCall(r) == [symbols |-> r.symbols, lo |-> r.start_date, hi |-> r.end_date]

\* get_time_series_data as get() sees it: its except clause turns a store
\* error into None (db_utils.py lines 211-213)
Lookup(rows, r, f) ==
    IF f.kind = "db_read" THEN [kind |-> "none"]
    ELSE GetTimeSeriesData(rows, r.symbols, r.start_date, r.end_date)

\* the upstream requests a cache-missing request may issue
PlannedCalls(rows, r, f) ==
    LET result == Lookup(rows, r, f)
        again  == IF f.kind = "cache_set" THEN {FullCall(r)} ELSE {}
    IN  IF EntersPartial(result)
        THEN Range(PartialCalls(r.symbols, result.missing, r.start_date,
                                EndOf(r.end_date))) \cup again
        ELSE IF result.kind = "full" THEN again
        ELSE {FullCall(r)}

\* a fallback that caches an empty payload when its fetch fails
MutFullStage(rows, cch, pub, r, cache_key, seen, down, f) ==
    LET call == FullCall(r)
        api_data == UpstreamData(pub, call.symbols, call.lo, call.hi)
        points == PointsOf(api_data.rates, DOMAIN api_data.rates)
        asked == [seen EXCEPT !.calls = Append(@, call)]
    IN  IF call \in down
        THEN [store |-> rows,
              cache |-> SetCachedData(cch, cache_key, UpstreamData({}, call.symbols,
                                                                   call.lo, call.hi)),
              last |-> [asked EXCEPT !.failed = @ \cup {call}, !.status = 500,
                                     !.source = "error",
                                     !.error = "API request failed"]]
        ELSE [store |-> SaveAll(rows, points, f.lost),
              cache |-> SetCachedData(cch, cache_key, api_data),
              last  |-> [asked EXCEPT !.saved = KeysOf(points),
                                      !.cacheSet = {api_data},
                                      !.source = "frankfurter_api",
                                      !.data = {api_data}]]

\* views.py lines 206-255: the full fallback fetch, after what was done so far
FullStage(rows, cch, pub, r, cache_key, seen, down, f) ==
    LET call == FullCall(r)
        api_data == UpstreamData(pub, call.symbols, call.lo, call.hi)
        points == PointsOf(api_data.rates, DOMAIN api_data.rates)
        asked == [seen EXCEPT !.calls = Append(@, call)]
        saved == [asked EXCEPT !.saved = @ \cup KeysOf(points),
                               !.lost = @ \cup (KeysOf(points) \cap f.lost)]
    IN  IF call \in down
        THEN [store |-> rows, cache |-> cch,
              last |-> [asked EXCEPT !.failed = @ \cup {call}, !.status = 500,
                                     !.source = "error",
                                     !.error = "API request failed"]]
        ELSE IF f.kind = "cache_set"
        THEN [store |-> SaveAll(rows, points, f.lost), cache |-> cch,
              last |-> [saved EXCEPT !.raised = @ \cup {"cache_set"},
                                     !.status = 500, !.source = "error",
                                     !.error = "Server error"]]
        ELSE [store |-> SaveAll(rows, points, f.lost),
              cache |-> SetCachedData(cch, cache_key, api_data),
              last  |-> [saved EXCEPT !.cacheSet = {api_data},
                                      !.source = "frankfurter_api",
                                      !.data = {api_data}]]

\* views.py lines 160-192: fetch the gaps, save the fetched dates, cache, answer;
\* a cache write that raises is caught at line 203 and the full fetch follows
PartialStage(rows, cch, pub, r, cache_key, seen, result, down, f) ==
    LET calls == PartialCalls(r.symbols, result.missing, r.start_date, EndOf(r.end_date))
        merged_data == FetchAndMergePartialData(pub, result.data, calls, down)
        points == PointsOf(merged_data.rates, merged_data.fetched_dates)
        payload == Envelope(merged_data)
        done == [seen EXCEPT !.calls = calls, !.failed = Range(calls) \cap down,
                             !.saved = KeysOf(points),
                             !.lost = KeysOf(points) \cap f.lost]
    IN  IF f.kind = "cache_set"
        THEN FullStage(SaveAll(rows, points, f.lost), cch, pub, r, cache_key,
                       [done EXCEPT !.raised = {"cache_set"}], down, f)
        ELSE [store |-> SaveAll(rows, points, f.lost),
              cache |-> SetCachedData(cch, cache_key, payload),
              last  |-> [done EXCEPT !.cacheSet = {payload},
                                     !.source = "partial_fetch",
                                     !.data = {payload}]]

\* views.py lines 194-201: the store covers the request
DatabaseStage(rows, cch, pub, r, cache_key, seen, result, down, f) ==
    IF f.kind = "cache_set"
    THEN FullStage(rows, cch, pub, r, cache_key,
                   [seen EXCEPT !.raised = {"cache_set"}], down, f)
    ELSE [store |-> rows,
          cache |-> SetCachedData(cch, cache_key, result.data),
          last  |-> [seen EXCEPT !.cacheSet = {result.data},
                                 !.source = "database", !.data = {result.data}]]

\* views.py lines 138-244: what get() does after a cache miss
AfterMiss(rows, cch, pub, r, cache_key, down, f) ==
    LET result == Lookup(rows, r, f)
        seen == [Trace(r) EXCEPT
                   !.raised = IF f.kind = "db_read" THEN {"db_read"} ELSE {},
                   !.db = IF f.kind = "db_read" THEN "failed" ELSE result.kind,
                   !.missing = IF result.kind = "partial" THEN result.missing
                               ELSE NoMissing]
    IN  IF EntersPartial(result)
        THEN PartialStage(rows, cch, pub, r, cache_key, seen, result, down, f)
        ELSE IF result.kind = "full"
        THEN DatabaseStage(rows, cch, pub, r, cache_key, seen, result, down, f)
        ELSE FullStage(rows, cch, pub, r, cache_key, seen, down, f)

\* TimeSeriesView.get as a whole: the new store, the new cache and the trace
TimeSeriesGet(rows, cch, pub, r, down, f) ==
    LET cache_key == GenerateCacheKey("time_series", CacheParams(r))
        cached == GetCachedData(cch, cache_key)
    IN  IF r.start_date = NoDate
        THEN [store |-> rows, cache |-> cch,
              last |-> [Trace(r) EXCEPT !.status = 400, !.source = "error",
                           !.error = "start_date parameter is required"]]
        ELSE IF f.kind = "cache_get"
        THEN [store |-> rows, cache |-> cch,
              last |-> [Trace(r) EXCEPT !.raised = {"cache_get"}, !.status = 500,
                                        !.source = "error",
                                        !.error = "Server error"]]
        ELSE IF cached # {}
        THEN [store |-> rows, cache |-> cch,
              last |-> [Trace(r) EXCEPT !.cached = cached, !.source = "cache",
                                        !.data = cached]]
        ELSE AfterMiss(rows, cch, pub, r, cache_key, down, f)

\* ----------------------------------------------------------------- actions
Idle == [req |-> [start_date |-> NoDate, end_date |-> NoDate, symbols |-> <<>>],
         raised |-> {}, cached |-> {}, db |-> "skipped", missing |-> NoMissing,
         calls |-> <<>>, failed |-> {}, saved |-> {}, lost |-> {}, cacheSet |-> {},
         status |-> 0, source |-> "none", data |-> {}, error |-> "", again |-> {}]

NoMergeCall == [input |-> <<>>, output |-> <<>>, done |-> FALSE]
NoGapCall == [target |-> "USD", lo |-> 1, hi |-> 1, gaps |-> <<>>,
              covers |-> FALSE, done |-> FALSE]
NoSaveCall == [target |-> "USD", date |-> NoDate, rate |-> 0, before |-> {},
               done |-> FALSE]
NoWriters == <<>>
NoClients == <<>>

Init ==
    /\ store = {}
    /\ cache = <<>>
    /\ upstream = Days \ {Today}
    /\ last = Idle
    /\ mcall = NoMergeCall
    /\ gcall = NoGapCall
    /\ scall = NoSaveCall
    /\ writers = NoWriters
    /\ clients = NoClients
    /\ unsaved = {}

\* the upstream request asks for the rate of target k[1] on date k[2]
AsksFor(call, k) ==
    /\ k[2] >= call.lo
    /\ call.hi # NoDate => k[2] <= call.hi
    /\ call.symbols # <<>> => k[1] \in Range(call.symbols)

\* the keys among keys that the upstream requests ask for
Requested(keys, calls) ==
    {k \in keys : \E i \in DOMAIN calls : AsksFor(calls[i], k)}

\* the fault was met by the request: its exception was raised
Struck(trace, f) ==
    \/ f.kind = "none"
    \/ f.kind \in trace.raised
    \/ f.kind = "db_write" /\ trace.lost # {}

\* get() handles request r while fault f strikes; entries of other keys have
\* lapsed by then.  With track, upstream answers every call, the fetched points
\* that could not be saved are remembered, and the request notes which of the
\* previous ones its upstream calls ask for.
Handle(r, f, track) ==
    /\ last = Idle
    /\ DOMAIN cache \subseteq {GenerateCacheKey("time_series", CacheParams(r))}
    /\ \E down \in IF track THEN {{}} ELSE SUBSET PlannedCalls(store, r, f) :
          LET out == TimeSeriesGet(store, cache, upstream, r, down, f)
          IN  /\ Struck(out.last, f)
              /\ store' = out.store
              /\ cache' = out.cache
              /\ last' = [out.last EXCEPT !.again = Requested(unsaved, out.last.calls)]
              /\ unsaved' = IF track
                            THEN {k \in out.last.lost :
                                     RowsOf(out.store, k[1], k[2]) = {}}
                            ELSE unsaved
    /\ UNCHANGED <<upstream, mcall, gcall, scall, writers, clients>>

\* a request is handled while cache and store work
Get == \E r \in Requests : Handle(r, NoFault, FALSE)

\* a request is handled while the cache or the store may raise
GetFaulty == \E r \in Requests : \E f \in FaultCases : Handle(r, f, FALSE)

\* a request is handled while saves may raise
GetLossy == \E r \in Requests : \E f \in LossFaults : Handle(r, f, TRUE)

\* the TTL of a cache entry runs out
Expire ==
    \E k \in DOMAIN cache :
        /\ cache' = [x \in DOMAIN cache \ {k} |-> cache[x]]
        /\ UNCHANGED <<store, upstream, last, mcall, gcall, scall, writers, clients, unsaved>>

\* the upstream API publishes today's rates
Publish ==
    /\ Today \notin upstream
    /\ upstream' = upstream \cup {Today}
    /\ UNCHANGED <<store, cache, last, mcall, gcall, scall, writers, clients, unsaved>>

\* the JsonResponse has gone out: the handler's locals are dropped
Respond ==
    /\ last # Idle
    /\ last' = Idle
    /\ UNCHANGED <<store, cache, upstream, mcall, gcall, scall, writers, clients, unsaved>>

Next == Get \/ Respond \/ Expire \/ Publish

Spec == Init /\ [][Next]_vars

\* the same service with a cache and a store that may raise
NextFaults == GetFaulty \/ Respond \/ Expire \/ Publish

SpecFaults == Init /\ [][NextFaults]_vars

\* the same service with a store whose saves may raise, request after request,
\* once upstream has published every date
InitHeal ==
    /\ store = {}
    /\ cache = <<>>
    /\ upstream = Days
    /\ last = Idle
    /\ mcall = NoMergeCall
    /\ gcall = NoGapCall
    /\ scall = NoSaveCall
    /\ writers = NoWriters
    /\ clients = NoClients
    /\ unsaved = {}

NextHeal == GetLossy \/ Respond \/ Expire

SpecHeal == InitHeal /\ [][NextHeal]_vars

\* ------------------------------------------- the range merger on its own
MergeDays == 1..MergeMaxDay
MergeIntervals == {x \in MergeDays \X MergeDays : x[1] <= x[2]}
MergeInputs == UNION {[1..n -> MergeIntervals] : n \in 0..MaxLen}

InitMerge ==
    /\ store = {}
    /\ cache = <<>>
    /\ upstream = Days \ {Today}
    /\ last = Idle
    /\ mcall \in {[input |-> s, output |-> <<>>, done |-> FALSE] : s \in MergeInputs}
    /\ gcall = NoGapCall
    /\ scall = NoSaveCall
    /\ writers = NoWriters
    /\ clients = NoClients
    /\ unsaved = {}

\* self._merge_overlapping_ranges(ranges)
MergeCall ==
    /\ ~mcall.done
    /\ mcall' = [mcall EXCEPT !.output = MergeOverlappingRanges(mcall.input),
                              !.done = TRUE]
    /\ UNCHANGED <<store, cache, upstream, last, gcall, scall, writers, clients, unsaved>>

NextMerge == MergeCall

SpecMerge == InitMerge /\ [][NextMerge]_vars

\* ------------------------- the gap finder and coverage checker on their own
\* the stores the pipeline can build: at most one row per (target, date)
StoreOf(cells) == {[target |-> c[1], date |-> c[2], rate |-> Quantize(UpRate(c[1], c[2]))] :
                      c \in cells}

InitGaps ==
    /\ store \in {StoreOf(cells) : cells \in SUBSET Cells}
    /\ cache = <<>>
    /\ upstream = Days
    /\ last = Idle
    /\ mcall = NoMergeCall
    /\ gcall \in {[target |-> t, lo |-> i[1], hi |-> i[2], gaps |-> <<>>,
                   covers |-> FALSE, done |-> FALSE] :
                     t \in Targets, i \in {x \in Days \X Days : x[1] <= x[2]}}
    /\ scall = NoSaveCall
    /\ writers = NoWriters
    /\ clients = NoClients
    /\ unsaved = {}

\* find_missing_date_ranges(base, target, lo, hi) and
\* database_covers_range(base, [target], lo, hi) on the same store
GapCall ==
    /\ ~gcall.done
    /\ gcall' = [gcall EXCEPT
                   !.gaps = FindMissingDateRanges(store, gcall.target, gcall.lo, gcall.hi),
                   !.covers = DatabaseCoversRange(store, <<gcall.target>>,
                                                  gcall.lo, gcall.hi),
                   !.done = TRUE]
    /\ UNCHANGED <<store, cache, upstream, last, mcall, scall, writers, clients, unsaved>>

NextGaps == GapCall

SpecGaps == InitGaps /\ [][NextGaps]_vars

\* ------------------------------------ save_exchange_rate, one call at a time
\* a different quote for the same key
Requote(rate) == rate + 13

SaveRates(t, d) == {UpRate(t, d), Requote(UpRate(t, d))}

\* the keys that are saved again and again: yesterday's and today's rates
SaveKeys == {c \in Cells : c[2] >= Today - 1}

InitSave ==
    /\ store = {}
    /\ cache = <<>>
    /\ upstream = Days
    /\ last = Idle
    /\ mcall = NoMergeCall
    /\ gcall = NoGapCall
    /\ scall = NoSaveCall
    /\ writers = NoWriters
    /\ clients = NoClients
    /\ unsaved = {}

\* DatabaseManager.save_exchange_rate(base, t, rate, d)
SaveCall ==
    \E c \in SaveKeys : \E rate \in SaveRates(c[1], c[2]) :
        /\ store' = SaveExchangeRate(store, c[1], rate, c[2])
        /\ scall' = [target |-> c[1], date |-> c[2], rate |-> rate,
                     before |-> RowsOf(store, c[1], c[2]), done |-> TRUE]
        /\ UNCHANGED <<cache, upstream, last, mcall, gcall, writers, clients, unsaved>>

NextSave == SaveCall

SpecSave == InitSave /\ [][NextSave]_vars

\* ----------------------------------- save_exchange_rate, calls side by side
\* Each call is two statements on the database, the SELECT of lines 18-22 and
\* the INSERT or UPDATE of existing_rate.save() / exchange_rate.save(); the
\* statements of concurrent calls interleave (autocommit, no transaction).
WriterIds == 1..MaxWriters

\* how many calls have returned
Finished(ws) == Cardinality({w \in DOMAIN ws : ws[w].pc = "done"})

\* a call that is about to run: its arguments, its position, the row its
\* SELECT found, how it ended and the how-manieth it was to return
SaveArgs ==
    UNION {{[target |-> c[1], date |-> c[2], rate |-> rate, pc |-> "filter",
             existing_rate |-> {}, outcome |-> "running", rank |-> 0] :
               rate \in SaveRates(c[1], c[2])} : c \in SaveKeys}

InitRace ==
    /\ store \in {StoreOf(cells) : cells \in SUBSET SaveKeys}
    /\ cache = <<>>
    /\ upstream = Days
    /\ last = Idle
    /\ mcall = NoMergeCall
    /\ gcall = NoGapCall
    /\ scall = NoSaveCall
    /\ writers \in [WriterIds -> SaveArgs]
    /\ clients = NoClients
    /\ unsaved = {}

\* db_utils.py lines 18-22: ExchangeRate.objects.filter(...).first()
WriterFilter(w) ==
    /\ writers[w].pc = "filter"
    /\ writers' = [writers EXCEPT
                     ![w].existing_rate = RowsOf(store, writers[w].target, writers[w].date),
                     ![w].pc = "save"]
    /\ UNCHANGED <<store, cache, upstream, last, mcall, gcall, scall, clients, unsaved>>

\* db_utils.py lines 24-45: UPDATE the row that was found, or INSERT a new one;
\* unique_together rejects the INSERT of a key that has a row by now, and the
\* except clause logs the IntegrityError and returns None
WriterSave(w) ==
    LET me == writers[w]
        row == [target |-> me.target, date |-> me.date, rate |-> Quantize(me.rate)]
        rank == Finished(writers) + 1
    IN  /\ me.pc = "save"
        /\ IF me.existing_rate # {}
           THEN /\ store' = (store \ RowsOf(store, me.target, me.date)) \cup {row}
                /\ writers' = [writers EXCEPT ![w].pc = "done", ![w].rank = rank,
                                              ![w].outcome = "updated"]
           ELSE IF RowsOf(store, me.target, me.date) # {}
           THEN /\ store' = store
                /\ writers' = [writers EXCEPT ![w].pc = "done", ![w].rank = rank,
                                              ![w].outcome = "rejected"]
           ELSE /\ store' = store \cup {row}
                /\ writers' = [writers EXCEPT ![w].pc = "done", ![w].rank = rank,
                                              ![w].outcome = "created"]
        /\ UNCHANGED <<cache, upstream, last, mcall, gcall, scall, clients, unsaved>>

NextRace == \E w \in WriterIds : WriterFilter(w) \/ WriterSave(w)

SpecRace == InitRace /\ [][NextRace]_vars

\* -------------------------------------- TimeSeriesView.get, calls side by side
\* Two requests with the same parameters run get() concurrently.  Each is a
\* cache read, a store lookup with the upstream requests that follow from it,
\* one save per fetched point and a cache write; the steps interleave.
ClientIds == {"a", "b"}

\* the requests that race: those for the rates of yesterday and today
RecentRequests == {r \in Requests : r.start_date >= Today - 1}

\* the locals of one get(): position, source tag, the payload to return, the
\* points still to be saved, the payload written to the cache
Client(r) == [req |-> r, pc |-> "cache_get", status |-> 0, source |-> "none",
              payload |-> {}, todo |-> {}, wrote |-> {}]

InitPair ==
    /\ store = {}
    /\ cache = <<>>
    /\ upstream \in {Days, Days \ {Today}}
    /\ last = Idle
    /\ mcall = NoMergeCall
    /\ gcall = NoGapCall
    /\ scall = NoSaveCall
    /\ writers = NoWriters
    /\ clients \in {[c \in ClientIds |-> Client(r)] : r \in RecentRequests}
    /\ unsaved = {}

\* views.py lines 129-136
ClientCacheGet(c) ==
    LET me == clients[c]
        cached == GetCachedData(cache, GenerateCacheKey("time_series", CacheParams(me.req)))
    IN  /\ me.pc = "cache_get"
        /\ clients' = [clients EXCEPT ![c] =
                          IF cached # {}
                          THEN [me EXCEPT !.pc = "done", !.status = 200,
                                          !.source = "cache", !.payload = cached]
                          ELSE [me EXCEPT !.pc = "lookup"]]
        /\ UNCHANGED <<store, cache, upstream, last, mcall, gcall, scall, writers, unsaved>>

\* where a client goes once its fetches are in: to the saves, if any
AfterFetch(me, source, payload, points) ==
    [me EXCEPT !.pc = IF points = {} THEN "cache_set" ELSE "save",
               !.status = 200, !.source = source, !.payload = {payload},
               !.todo = points]

\* views.py lines 149-165 and 206-222: get_time_series_data on the store as it
\* is now, and the upstream requests of the stage that follows
ClientLookup(c) ==
    LET me == clients[c]
        r == me.req
        result == GetTimeSeriesData(store, r.symbols, r.start_date, r.end_date)
    IN  /\ me.pc = "lookup"
        /\ \E down \in SUBSET PlannedCalls(store, r, NoFault) :
              clients' = [clients EXCEPT ![c] =
                 IF EntersPartial(result)
                 THEN LET calls == PartialCalls(r.symbols, result.missing,
                                                r.start_date, EndOf(r.end_date))
                          merged_data == FetchAndMergePartialData(upstream, result.data,
                                                                  calls, down)
                      IN  AfterFetch(me, "partial_fetch", Envelope(merged_data),
                                     PointsOf(merged_data.rates, merged_data.fetched_dates))
                 ELSE IF result.kind = "full"
                 THEN [me EXCEPT !.pc = "cache_set", !.status = 200,
                                 !.source = "database", !.payload = {result.data}]
                 ELSE IF FullCall(r) \in down
                 THEN [me EXCEPT !.pc = "done", !.status = 500, !.source = "error"]
                 ELSE LET api_data == UpstreamData(upstream, r.symbols,
                                                   r.start_date, r.end_date)
                      IN  AfterFetch(me, "frankfurter_api", api_data,
                                     PointsOf(api_data.rates, DOMAIN api_data.rates))]
        /\ UNCHANGED <<store, cache, upstream, last, mcall, gcall, scall, writers, unsaved>>

\* views.py lines 172-177 and 228-233: one save_exchange_rate of the save loop
ClientSave(c) ==
    LET me == clients[c]
    IN  /\ me.pc = "save"
        /\ \E p \in me.todo :
              /\ store' = SaveExchangeRate(store, p.target, p.rate, p.date)
              /\ clients' = [clients EXCEPT
                               ![c].todo = @ \ {p},
                               ![c].pc = IF me.todo = {p} THEN "cache_set" ELSE "save"]
        /\ UNCHANGED <<cache, upstream, last, mcall, gcall, scall, writers, unsaved>>

\* views.py lines 186, 196 and 237: set_cached_data, then the response
ClientCacheSet(c) ==
    LET me == clients[c]
        payload == CHOOSE p \in me.payload : TRUE
    IN  /\ me.pc = "cache_set"
        /\ cache' = SetCachedData(cache, GenerateCacheKey("time_series", CacheParams(me.req)),
                                  payload)
        /\ clients' = [clients EXCEPT ![c].pc = "done", ![c].wrote = {payload}]
        /\ UNCHANGED <<store, upstream, last, mcall, gcall, scall, writers, unsaved>>

NextPair ==
    \E c \in ClientIds :
        ClientCacheGet(c) \/ ClientLookup(c) \/ ClientSave(c) \/ ClientCacheSet(c)

SpecPair == InitPair /\ [][NextPair]_vars

\* ------------------------------- TimeSeriesView.get, statement by statement
\* One call of get() on any store, position by position: the cache read, the
\* query and the coverage check of get_time_series_data, the scan of
\* find_missing_date_ranges one loop iteration at a time, one upstream request
\* at a time, one save at a time, the cache write and the response.
FlowId == "a"

\* a scan that never moves on to the next day
MutNextDate(current_date) == current_date

\* current_date += timedelta(days=1)
NextDate(current_date) == current_date + 1

\* the targets whose gaps are looked for, db_utils.py lines 188 and 196-200
RECURSIVE SeqOf(_)
SeqOf(S) == IF S = {} THEN <<>>
            ELSE LET x == CHOOSE y \in S : TRUE IN <<x>> \o SeqOf(S \ {x})

\* rows of the query of db_utils.py lines 150-162
Queried(rows, r) ==
    {x \in TargetRows(rows, r.symbols) :
        /\ x.date >= r.start_date
        /\ (r.end_date # NoDate => x.date <= r.end_date)}

\* existing_dates of db_utils.py lines 105-111
ExistingDates(rows, t, r) ==
    {x.date : x \in {y \in rows : /\ y.target = t
                                  /\ y.date >= r.start_date
                                  /\ y.date <= EndOf(r.end_date)}}

\* the locals of the call before its first statement
Flow(r, rows, cch) ==
    [req |-> r, pc |-> "cache_get", rows0 |-> rows, cache0 |-> cch,
     read |-> <<>>, db_data |-> {}, targets |-> <<>>, current_date |-> NoDate,
     missing_start |-> NoDate, ranges |-> <<>>, missing |-> NoMissing,
     calls |-> <<>>, next |-> 1, failed |-> {}, merged_data |-> {}, todo |-> {},
     status |-> 0, source |-> "none", payload |-> {}, wrote |-> {}]

InitFlow ==
    /\ store \in {StoreOf(cells) : cells \in SUBSET Cells}
    /\ upstream = Days
    /\ \E r \in {q \in Requests : q.start_date # NoDate} :
          /\ cache \in {<<>>,
                        SetCachedData(<<>>, GenerateCacheKey("time_series", CacheParams(r)),
                                      UpstreamData(upstream, r.symbols, r.start_date,
                                                   r.end_date))}
          /\ clients = [c \in {FlowId} |-> Flow(r, store, cache)]
    /\ last = Idle
    /\ mcall = NoMergeCall
    /\ gcall = NoGapCall
    /\ scall = NoSaveCall
    /\ writers = NoWriters
    /\ unsaved = {}

\* the call moves on: its locals change, store and cache may
Step(me, rows, cch) ==
    /\ clients' = [clients EXCEPT ![FlowId] = me]
    /\ store' = rows
    /\ cache' = cch
    /\ UNCHANGED <<upstream, last, mcall, gcall, scall, writers, unsaved>>

\* views.py lines 129-136
FlowCacheGet ==
    LET me == clients[FlowId]
        cached == GetCachedData(cache, GenerateCacheKey("time_series", CacheParams(me.req)))
    IN  /\ me.pc = "cache_get"
        /\ Step(IF cached # {}
                THEN [me EXCEPT !.pc = "done", !.read = Append(@, "cache"), !.status = 200,
                                !.source = "cache", !.payload = cached]
                ELSE [me EXCEPT !.pc = "query", !.read = Append(@, "cache")],
                store, cache)

\* db_utils.py lines 150-179: the query; no row means None, and the full stage
FlowQuery ==
    LET me == clients[FlowId]
        r == me.req
        rates == Queried(store, r)
    IN  /\ me.pc = "query"
        /\ Step(IF rates = {}
                THEN [me EXCEPT !.pc = "full_fetch", !.read = Append(@, "store")]
                ELSE [me EXCEPT !.pc = "coverage", !.read = Append(@, "store"),
                                !.db_data = {[base |-> BaseCur, start_date |-> r.start_date,
                                              end_date |-> EndOf(r.end_date),
                                              rates |-> RatesOf(rates)]}],
                store, cache)

\* db_utils.py lines 181-200: covered means the database stage; otherwise the
\* gaps of the asked targets, or of the targets found, are looked for
FlowCoverage ==
    LET me == clients[FlowId]
        r == me.req
    IN  /\ me.pc = "coverage"
        /\ Step(IF DatabaseCoversRange(store, r.symbols, r.start_date, EndOf(r.end_date))
                THEN [me EXCEPT !.pc = "cache_set", !.status = 200, !.source = "database",
                                !.payload = me.db_data]
                ELSE [me EXCEPT !.pc = "scan_start",
                                !.targets = IF r.symbols # <<>> THEN r.symbols
                                            ELSE SeqOf({x.target : x \in Queried(store, r)})],
                store, cache)

\* db_utils.py lines 105-119 for the next target, or lines 209 and views.py
\* lines 151-159 when no target is left
FlowScanStart ==
    LET me == clients[FlowId]
        r == me.req
        t == Head(me.targets)
    IN  /\ me.pc = "scan_start"
        /\ Step(IF me.targets = <<>>
                THEN IF DOMAIN (CHOOSE p \in me.db_data : TRUE).rates # {}
                        /\ DOMAIN me.missing # {}
                     THEN [me EXCEPT !.pc = "plan"]
                     ELSE [me EXCEPT !.pc = "full_fetch"]
                ELSE IF ExistingDates(store, t, r) = {}
                THEN [me EXCEPT !.targets = Tail(@),
                                !.missing = [x \in DOMAIN @ \cup {t} |->
                                               IF x = t
                                               THEN <<<<r.start_date, EndOf(r.end_date)>>>>
                                               ELSE @[x]]]
                ELSE [me EXCEPT !.pc = "scan_outer", !.current_date = r.start_date,
                                !.ranges = <<>>],
                store, cache)

\* db_utils.py lines 121-131: one test of the outer while loop and what follows
FlowScanOuter ==
    LET me == clients[FlowId]
        r == me.req
        t == Head(me.targets)
    IN  /\ me.pc = "scan_outer"
        /\ Step(IF me.current_date <= EndOf(r.end_date)
                THEN IF me.current_date \notin ExistingDates(store, t, r)
                     THEN [me EXCEPT !.pc = "scan_inner",
                                     !.missing_start = me.current_date]
                     ELSE [me EXCEPT !.current_date = NextDate(@)]
                ELSE [me EXCEPT !.pc = "scan_start", !.targets = Tail(@),
                                !.current_date = NoDate, !.ranges = <<>>,
                                !.missing = IF me.ranges = <<>> THEN @
                                            ELSE [x \in DOMAIN @ \cup {t} |->
                                                    IF x = t THEN me.ranges ELSE @[x]]],
                store, cache)

\* db_utils.py lines 126-129: one test of the inner while loop and what follows
FlowScanInner ==
    LET me == clients[FlowId]
        r == me.req
        t == Head(me.targets)
    IN  /\ me.pc = "scan_inner"
        /\ Step(IF /\ me.current_date <= EndOf(r.end_date)
                   /\ me.current_date \notin ExistingDates(store, t, r)
                THEN [me EXCEPT !.current_date = NextDate(@)]
                ELSE [me EXCEPT !.pc = "scan_outer", !.missing_start = NoDate,
                                !.ranges = Append(@, <<me.missing_start,
                                                       me.current_date - 1>>)],
                store, cache)

\* views.py lines 68-95: merged_data is set up and the requests are laid out
FlowPlan ==
    LET me == clients[FlowId]
        r == me.req
        partial_data == CHOOSE p \in me.db_data : TRUE
    IN  /\ me.pc = "plan"
        /\ Step([me EXCEPT !.pc = "fetch",
                           !.calls = PartialCalls(r.symbols, me.missing, r.start_date,
                                                  EndOf(r.end_date)),
                           !.merged_data = {[base |-> partial_data.base,
                                             start_date |-> partial_data.start_date,
                                             end_date |-> partial_data.end_date,
                                             rates |-> partial_data.rates,
                                             fetched_dates |-> {}]}],
                store, cache)

\* views.py lines 40-62: the next request of the partial stage, which succeeds
\* or fails; after the last one lines 160-179 pick the points to save
FlowFetch ==
    LET me == clients[FlowId]
        call == me.calls[me.next]
        merged_data == CHOOSE m \in me.merged_data : TRUE
    IN  /\ me.pc = "fetch"
        /\ IF me.next > Len(me.calls)
           THEN LET points == PointsOf(merged_data.rates, merged_data.fetched_dates)
                IN  Step([me EXCEPT !.pc = IF points = {} THEN "cache_set" ELSE "save",
                                    !.status = 200, !.source = "partial_fetch",
                                    !.payload = {Envelope(merged_data)},
                                    !.todo = points],
                         store, cache)
           ELSE \E ok \in BOOLEAN :
                   Step([me EXCEPT !.read = Append(@, "upstream"), !.next = @ + 1,
                                   !.failed = IF ok THEN @ ELSE @ \cup {call},
                                   !.merged_data = {FetchAndMergeApiData(merged_data, upstream,
                                                                         call, ok)}],
                        store, cache)

\* views.py lines 206-222 and 246-250: the request of the full stage
FlowFullFetch ==
    LET me == clients[FlowId]
        call == FullCall(me.req)
        api_data == UpstreamData(upstream, call.symbols, call.lo, call.hi)
        points == PointsOf(api_data.rates, DOMAIN api_data.rates)
    IN  /\ me.pc = "full_fetch"
        /\ \E ok \in BOOLEAN :
              Step(IF ok
                   THEN [me EXCEPT !.pc = IF points = {} THEN "cache_set" ELSE "save",
                                   !.read = Append(@, "upstream"),
                                   !.calls = Append(@, call), !.status = 200,
                                   !.source = "frankfurter_api", !.payload = {api_data},
                                   !.todo = points]
                   ELSE [me EXCEPT !.pc = "done", !.read = Append(@, "upstream"),
                                   !.calls = Append(@, call), !.failed = @ \cup {call},
                                   !.status = 500, !.source = "error"],
                   store, cache)

\* views.py lines 172-177 and 228-233: one save_exchange_rate of the save loop
FlowSave ==
    LET me == clients[FlowId]
        p == CHOOSE x \in me.todo : TRUE
    IN  /\ me.pc = "save"
        /\ Step([me EXCEPT !.todo = @ \ {p},
                           !.pc = IF me.todo = {p} THEN "cache_set" ELSE "save"],
                SaveExchangeRate(store, p.target, p.rate, p.date), cache)

\* views.py lines 186, 196 and 237: set_cached_data, then the response
FlowCacheSet ==
    LET me == clients[FlowId]
        payload == CHOOSE p \in me.payload : TRUE
    IN  /\ me.pc = "cache_set"
        /\ Step([me EXCEPT !.pc = "done", !.wrote = {payload}], store,
                SetCachedData(cache, GenerateCacheKey("time_series", CacheParams(me.req)),
                              payload))

NextFlow ==
    \/ FlowCacheGet
    \/ FlowQuery
    \/ FlowCoverage
    \/ FlowScanStart
    \/ FlowScanOuter
    \/ FlowScanInner
    \/ FlowPlan
    \/ FlowFetch
    \/ FlowFullFetch
    \/ FlowSave
    \/ FlowCacheSet

\* the call is scheduled until it has returned
SpecFlow == InitFlow /\ [][NextFlow]_vars /\ WF_vars(NextFlow)

\* ================================================================== claims
OverlapOrAdjacent(a, b) == a[1] <= b[2] + 1 /\ b[1] <= a[2] + 1

\* C6: for every list R of intervals (start <= end), _merge_overlapping_ranges(R)
\* covers exactly the dates R covers, is sorted ascending by start, and no two
\* of its intervals overlap or are adjacent.
C6_MergeCorrect ==
    mcall.done =>
        LET out == mcall.output
        IN  /\ Covered(out) = Covered(mcall.input)
            /\ \A i, j \in DOMAIN out : i < j => out[i][1] < out[j][1]
            /\ \A i, j \in DOMAIN out : i # j => ~OverlapOrAdjacent(out[i], out[j])

\* an unsorted list of three intervals, two of which were coalesced
C6_Witness ==
    /\ mcall.done
    /\ Len(mcall.input) = 3
    /\ Len(mcall.output) = 2
    /\ mcall.input[1][1] > mcall.input[2][1]

\* C7: merging is idempotent, merge(merge(R)) = merge(R) for every list R, and
\* the empty list merges to the empty list.
C7_MergeIdempotent ==
    mcall.done =>
        /\ MergeOverlappingRanges(mcall.output) = mcall.output
        /\ (mcall.input = <<>> => mcall.output = <<>>)

\* a list whose merge differs from it
C7_Witness ==
    /\ mcall.done
    /\ Len(mcall.input) = 3
    /\ Len(mcall.output) = 1
    /\ mcall.output # <<mcall.input[1]>>

\* dates of [lo, hi] with no stored row for the target
Absent(rows, t, lo, hi) == {d \in lo..hi : RowsOf(rows, t, d) = {}}

\* C8: find_missing_date_ranges returns, in chronological order, exactly the
\* maximal runs of consecutive dates of [start, end] without a stored row: the
\* returned intervals cover the absent dates and nothing else, each absent date
\* lies in one of them only, a lone missing day gives start = end, and an
\* interval with no stored date gives [(start, end)].
C8_GapsExact ==
    gcall.done =>
        LET g == gcall.gaps
            absent == Absent(store, gcall.target, gcall.lo, gcall.hi)
        IN  /\ \A i \in DOMAIN g : gcall.lo <= g[i][1] /\ g[i][1] <= g[i][2]
                                   /\ g[i][2] <= gcall.hi
            /\ Covered(g) = absent
            /\ \A i, j \in DOMAIN g : i < j => g[i][2] + 1 < g[j][1]
            /\ \A d \in absent :
                  ((d - 1) \notin absent /\ (d + 1) \notin absent) => <<d, d>> \in Range(g)
            /\ (absent = gcall.lo..gcall.hi => g = <<<<gcall.lo, gcall.hi>>>>)

\* a stored date between two lone missing days
C8_Witness ==
    /\ gcall.done
    /\ Len(gcall.gaps) = 2
    /\ gcall.gaps[1][1] = gcall.gaps[1][2]
    /\ Absent(store, gcall.target, gcall.lo, gcall.hi) # gcall.lo..gcall.hi

\* C9: gap/coverage duality for one pair and interval: no gap implies the
\* coverage checker says covered, and not covered implies some gap.
C9_GapCoverDuality ==
    gcall.done =>
        /\ (gcall.gaps = <<>> => gcall.covers)
        /\ (~gcall.covers => gcall.gaps # <<>>)

\* an interval of several days without a gap, reported covered
C9_Witness ==
    /\ gcall.done
    /\ gcall.lo < gcall.hi
    /\ gcall.gaps = <<>>
    /\ gcall.covers

\* --------------------------------------------- claims about a whole request
\* a step in which TimeSeriesView.get handles a request
Handled == last = Idle /\ last' # Idle

\* ... a valid request that missed the cache
Missed == Handled /\ last'.status # 400 /\ last'.cached = {}

KeyOf(r) == <<"time_series", [start_date |-> r.start_date, end_date |-> r.end_date,
                               base |-> BaseCur, symbols |-> r.symbols]>>

Lo(r) == r.start_date
Hi(r) == IF r.end_date = NoDate THEN Today ELSE r.end_date

\* targets a request asks for (every target when it names none)
Asked(r) == IF r.symbols = <<>> THEN Targets ELSE {r.symbols[i] : i \in DOMAIN r.symbols}

\* rows of the asked targets inside the requested interval
InInterval(rows, r) ==
    {x \in rows : x.target \in Asked(r) /\ x.date >= Lo(r) /\ x.date <= Hi(r)}

\* the stored dates of a target reach to both ends of the interval
Reaches(rows, ts, lo, hi) ==
    /\ \E x \in rows : x.target \in ts /\ x.date <= lo
    /\ \E x \in rows : x.target \in ts /\ x.date >= hi

\* g lists, in order, the maximal runs of the dates in absent
IsRunsOf(g, absent) ==
    /\ Covered(g) = absent
    /\ \A i \in DOMAIN g : g[i][1] <= g[i][2]
    /\ \A i, j \in DOMAIN g : i < j => g[i][2] + 1 < g[j][1]

Success == {"database", "partial_fetch", "frankfurter_api"}

\* C1: a response tagged partial_fetch is returned only when at least one
\* interval fetch of that request succeeded; when every fetch of the partial
\* stage fails the request goes on to the full fallback fetch.
C1_PartialNeedsAFetch ==
    last.source = "partial_fetch" =>
        \E i \in DOMAIN last.calls : last.calls[i] \notin last.failed

\* C2: after a success response, the same request made while its cache entry
\* is live is answered from the cache with the stored payload, reading and
\* writing nothing in the store and calling upstream not at all.
C2_RepeatServedFromCache ==
    /\ [](/\ last.source \in Success
          /\ KeyOf(last.req) \in DOMAIN cache
          => last.data = {cache[KeyOf(last.req)]})
    /\ [][Handled /\ KeyOf(last'.req) \in DOMAIN cache
          => /\ last'.source = "cache"
             /\ last'.status = 200
             /\ last'.data = {cache[KeyOf(last'.req)]}
             /\ last'.db = "skipped"
             /\ last'.calls = <<>>
             /\ last'.saved = {}
             /\ store' = store
             /\ cache' = cache]_vars

\* a request answered from the cache with rates of two dates
C2_Witness ==
    /\ last.source = "cache"
    /\ \E p \in last.data : Cardinality(DOMAIN p.rates) >= 2

\* what C3 concludes of a request for one target t
PartialOutcome(t) ==
    LET r == last'.req
        absent == Absent(store, t, Lo(r), Hi(r))
        stored == (Lo(r)..Hi(r)) \ absent
    IN  /\ DOMAIN last'.missing = {t}
        /\ IsRunsOf(last'.missing[t], absent)
        /\ Len(last'.calls) = Len(last'.missing[t])
        /\ \A i \in DOMAIN last'.calls :
              last'.calls[i] = [symbols |-> <<t>>, lo |-> last'.missing[t][i][1],
                                hi |-> last'.missing[t][i][2]]
        /\ last'.source = "partial_fetch"
        /\ \E p \in last'.data :
              DOMAIN p.rates =
                  stored \cup {d \in upstream :
                                  \E i \in DOMAIN last'.calls :
                                      /\ last'.calls[i] \notin last'.failed
                                      /\ d >= last'.calls[i].lo
                                      /\ d <= last'.calls[i].hi}

\* the store holds the target on a proper non-empty part of the interval
PartlyStored(t) ==
    LET r == last'.req
        absent == Absent(store, t, Lo(r), Hi(r))
    IN  /\ r.symbols = <<t>>
        /\ absent # {}
        /\ absent # Lo(r)..Hi(r)

\* C3 as stated: whenever the store holds the one requested target on a proper
\* non-empty subset of the interval and the cache misses, the gaps are the
\* missing sub-intervals, one fetch goes out per gap and no other, and the
\* response is tagged partial_fetch with the stored and the returned dates.
C3_AsStated ==
    [][\A t \in Targets : Missed /\ PartlyStored(t) => PartialOutcome(t)]_vars

\* C3 amended: ... and the first or the last date of the interval is not
\* reached by the stored dates of the pair (the coverage check fails).
C3_PartialFetchOfGaps ==
    [][\A t \in Targets :
          Missed /\ PartlyStored(t)
          /\ ~Reaches(store, {t}, Lo(last'.req), Hi(last'.req))
          => PartialOutcome(t)]_vars

\* a partial fetch of one gap that completes the whole calendar
C3_Witness ==
    /\ last.source = "partial_fetch"
    /\ last.req.symbols = <<"USD">>
    /\ Len(last.calls) = 1
    /\ last.failed = {}
    /\ \E p \in last.data : DOMAIN p.rates = Days

\* C4: on a cache miss with no stored row of the base (and the requested
\* targets) in the interval, no gaps are computed and exactly one upstream
\* fetch is issued, for the whole interval with the requested symbols; when it
\* succeeds every returned point is upserted, the cache is written and the
\* response is tagged frankfurter_api.
C4_EmptyStoreFullFetch ==
    [][Missed /\ InInterval(store, last'.req) = {}
       => LET r == last'.req
          IN  /\ last'.db = "none"
              /\ last'.missing = NoMissing
              /\ last'.calls = <<[symbols |-> r.symbols, lo |-> r.start_date,
                                  hi |-> r.end_date]>>
              /\ last'.failed = {}
                 => /\ last'.source = "frankfurter_api"
                    /\ \E p \in last'.data :
                          /\ DOMAIN p.rates = {d \in upstream : d >= Lo(r) /\ d <= Hi(r)}
                          /\ \A d \in DOMAIN p.rates :
                                /\ DOMAIN p.rates[d] = Asked(r)
                                /\ \A t \in DOMAIN p.rates[d] :
                                      RowsOf(store', t, d) =
                                          {[target |-> t, date |-> d,
                                            rate |-> Quantize(p.rates[d][t])]}
                          /\ KeyOf(r) \in DOMAIN cache'
                          /\ cache'[KeyOf(r)] = p]_vars

\* a full fetch without symbols into an empty store that saved two dates
C4_Witness ==
    /\ last.source = "frankfurter_api"
    /\ last.db = "none"
    /\ last.req.symbols = <<>>
    /\ Cardinality({x[2] : x \in last.saved}) >= 2
    /\ Cardinality(store) = Cardinality(last.saved)

\* C5: on a cache miss, when the coverage check of line 182 is reached and
\* reports full coverage, the rates read from the store are returned tagged
\* database and cached, with no upstream call and no store write; and no
\* response is tagged database when the coverage check is false.
C5_CoveredFromStore ==
    [][Missed
       => LET r == last'.req
              covered == DatabaseCoversRange(store, r.symbols, Lo(r), Hi(r))
          IN  /\ (InInterval(store, r) # {} /\ covered)
                 => /\ last'.source = "database"
                    /\ \E p \in last'.data :
                          /\ p.rates = RatesOf(InInterval(store, r))
                          /\ KeyOf(r) \in DOMAIN cache'
                          /\ cache'[KeyOf(r)] = p
                    /\ last'.calls = <<>>
                    /\ last'.saved = {}
                    /\ store' = store
              /\ last'.source = "database" => covered]_vars

\* a database answer with rates of two dates
C5_Witness ==
    /\ last.source = "database"
    /\ last.calls = <<>>
    /\ \E p \in last.data : Cardinality(DOMAIN p.rates) >= 2

AllLists == SymbolLists \cup {<<"GBP">>}

\* the coverage checker is the min/max test, for every store and query
MinMaxCoverage ==
    \A ts \in AllLists : \A lo \in Days : \A hi \in lo..MaxDay :
        DatabaseCoversRange(store, ts, lo, hi)
            <=> IF ts = <<>> THEN Reaches(store, Targets, lo, hi)
                ELSE \A i \in DOMAIN ts : Reaches(store, {ts[i]}, lo, hi)

\* a date of the interval is missing for an asked target
HasHole(rows, r) ==
    \E t \in Asked(r) : Absent(rows, t, Lo(r), Hi(r)) # {}

AnsweredFromStore ==
    /\ last'.source = "database"
    /\ last'.calls = <<>>
    /\ last'.missing = NoMissing
    /\ last'.saved = {}
    /\ store' = store

\* C10 as stated: coverage is the min/max test, and so every request whose
\* interval the stored min/max span, hole or not, is answered tagged database
\* with no gap filling and no upstream fetch.
C10_AsStated ==
    /\ []MinMaxCoverage
    /\ [][Missed /\ HasHole(store, last'.req)
          /\ DatabaseCoversRange(store, last'.req.symbols, Lo(last'.req), Hi(last'.req))
          => AnsweredFromStore]_vars

\* C10 amended: ... is answered tagged database, provided the store has at
\* least one row of the base (and requested targets) inside the interval.
C10_MinMaxCoverage ==
    /\ []MinMaxCoverage
    /\ [][Missed /\ HasHole(store, last'.req)
          /\ InInterval(store, last'.req) # {}
          /\ DatabaseCoversRange(store, last'.req.symbols, Lo(last'.req), Hi(last'.req))
          => AnsweredFromStore]_vars

\* a database answer for a target that lacks a date of the interval
C10_Witness ==
    /\ last.source = "database"
    /\ last.req.symbols = <<"USD">>
    /\ HasHole(store, last.req)

\* ------------------------------------------------ claims about the Rate Store
AtMostOneRow ==
    \A c \in Cells : Cardinality(RowsOf(store, c[1], c[2])) <= 1

\* rows of the other keys are as they were
OthersKept(t, d) ==
    {x \in store' : ~(x.target = t /\ x.date = d)}
        = {x \in store : ~(x.target = t /\ x.date = d)}

\* C11 as stated: after any sequence of saves there is at most one row per key,
\* and a save leaves exactly one row for its key, holding the rate that was
\* saved, and changes no row of another key.
C11_AsStated ==
    /\ []AtMostOneRow
    /\ [][/\ RowsOf(store', scall'.target, scall'.date)
               = {[target |-> scall'.target, date |-> scall'.date,
                   rate |-> scall'.rate]}
          /\ OthersKept(scall'.target, scall'.date)]_vars

\* C11 amended: ... holding the rate that was saved, rounded to the six decimal
\* places of the rate column.
C11_UpsertConvergence ==
    /\ []AtMostOneRow
    /\ [][/\ RowsOf(store', scall'.target, scall'.date)
               = {[target |-> scall'.target, date |-> scall'.date,
                   rate |-> Quantize(scall'.rate)]}
          /\ OthersKept(scall'.target, scall'.date)]_vars

\* a key saved again with a different rate, next to a row of another key
C11_Witness ==
    /\ scall.done
    /\ scall.before # {}
    /\ \A b \in scall.before : b.rate # Quantize(scall.rate)
    /\ Cardinality(RowsOf(store, scall.target, scall.date)) = 1
    /\ Cardinality(store) >= 2

\* the calls of save_exchange_rate for key c have all returned
AllReturned(c) ==
    /\ writers # NoWriters
    /\ \A w \in DOMAIN writers : writers[w].pc = "done"
    /\ \A w \in DOMAIN writers : <<writers[w].target, writers[w].date>> = c

\* C12: under every interleaving of concurrent save_exchange_rate calls on one
\* key, no call is rejected or dropped (each inserts or updates), and the store
\* ends with exactly one row for the key, holding the rate of the call that
\* returned last.
C12_RacingUpserts ==
    \A c \in Cells :
        AllReturned(c) =>
            /\ \A w \in DOMAIN writers : writers[w].outcome \in {"created", "updated"}
            /\ \E w \in DOMAIN writers :
                  /\ writers[w].rank = Cardinality(DOMAIN writers)
                  /\ RowsOf(store, c[1], c[2])
                       = {[target |-> c[1], date |-> c[2],
                           rate |-> Quantize(writers[w].rate)]}

\* ------------------------------------------- claims about concurrent requests
\* C13: two concurrent requests with the same parameters write equal payloads
\* to the cache under every interleaving of their store reads, fetches and
\* store writes, so the cache ends with the value a serial execution leaves.
C13_EqualPayloads ==
    \A a, b \in DOMAIN clients :
        clients[a].wrote # {} /\ clients[b].wrote # {}
            => clients[a].wrote = clients[b].wrote

\* --------------------------------------------- claims about failing fetches
\* the store lookup of the request handled in this step
Found == GetTimeSeriesData(store, last'.req.symbols, last'.req.start_date,
                           last'.req.end_date)

\* a request of this step that succeeded returned the rate of t on d
Fetched(t, d) ==
    \E i \in DOMAIN last'.calls :
        LET call == last'.calls[i]
        IN  /\ call \notin last'.failed
            /\ d \in upstream
            /\ d >= call.lo
            /\ call.hi # NoDate => d <= call.hi
            /\ call.symbols # <<>> => t \in Range(call.symbols)

\* the stored rates of the request, overlaid with what the successful
\* requests returned, and nothing else
StoredPlusFetched(p) ==
    LET r == last'.req
        kept == InInterval(store, r)
    IN  \A d \in Days : \A t \in Targets :
            IF Fetched(t, d)
            THEN d \in DOMAIN p.rates /\ t \in DOMAIN p.rates[d]
                 /\ p.rates[d][t] = UpRate(t, d)
            ELSE IF RowsOf(kept, t, d) # {}
            THEN d \in DOMAIN p.rates /\ t \in DOMAIN p.rates[d]
                 /\ \E x \in RowsOf(kept, t, d) : p.rates[d][t] = x.rate
            ELSE d \in DOMAIN p.rates => t \notin DOMAIN p.rates[d]

\* C14: in the partial-fetch stage a failed interval fetch does not abort the
\* request and changes nothing for its interval: every merged interval is
\* still requested, and the response holds the stored rates plus all rates of
\* the requests that succeeded.
C14_FailedFetchSkipped ==
    [][Missed /\ EntersPartial(Found)
       => /\ last'.calls = PartialCalls(last'.req.symbols, Found.missing,
                                        Lo(last'.req), Hi(last'.req))
          /\ last'.failed \subseteq Range(last'.calls)
          /\ last'.status = 200
          /\ last'.source = "partial_fetch"
          /\ \E p \in last'.data : StoredPlusFetched(p)]_vars

\* a partial fetch whose first request failed and whose second one brought
\* a rate that the response carries
C14_Witness ==
    /\ last.source = "partial_fetch"
    /\ Len(last.calls) >= 2
    /\ last.calls[1] \in last.failed
    /\ last.calls[2] \notin last.failed
    /\ \E p \in last.data : \E d \in DOMAIN p.rates :
          /\ d >= last.calls[2].lo
          /\ d <= last.calls[2].hi
          /\ Range(last.calls[2].symbols) \subseteq DOMAIN p.rates[d]

\* the full fallback stage is what the store lookup of this step leads to
EntersFull == Found.kind # "full" /\ ~EntersPartial(Found)

\* C15: when the full fallback fetch fails the request ends in an error
\* response with status 500, and the request has written nothing to the cache
\* and no row to the store.
C15_FullFetchFailureFatal ==
    [][Missed /\ EntersFull /\ last'.failed # {}
       => /\ last'.calls = <<FullCall(last'.req)>>
          /\ last'.status = 500
          /\ last'.source = "error"
          /\ last'.data = {}
          /\ last'.saved = {}
          /\ last'.cacheSet = {}
          /\ cache' = cache
          /\ store' = store]_vars

\* a failed full fetch for an interval the non-empty store has no row in
C15_Witness ==
    /\ last.status = 500
    /\ last.db = "none"
    /\ last.failed = {FullCall(last.req)}
    /\ store # {}
    /\ DOMAIN cache = {}

\* ----------------------------------- claims about a failing cache and store
\* C16: a cache error is a cache miss and never fatal: when the cache read
\* raises the request goes on to the store lookup, and when a cache write
\* raises after data was obtained the request answers 200 with that data.
C16_CacheErrorsNotFatal ==
    [][Handled
       => /\ "cache_get" \in last'.raised
             => /\ last'.db # "skipped"
                /\ last'.error # "Server error"
          /\ "cache_set" \in last'.raised
             => /\ last'.status = 200
                /\ last'.source \in Success
                /\ last'.data # {}]_vars

\* what the request of this step gives when every save succeeds
Unharmed ==
    TimeSeriesGet(store, cache, upstream, last'.req, last'.failed, NoFault)

\* C17: a save that raises after a successful fetch (partial or full stage)
\* does not prevent the response: it is the success response, with the tag and
\* all the fetched data, of the request whose saves succeed, and the other
\* fetched points are still saved.
C17_SaveFailureTolerated ==
    [][Handled /\ last'.lost # {}
       => /\ last'.status = 200
          /\ last'.source \in {"partial_fetch", "frankfurter_api"}
          /\ last'.source = Unharmed.last.source
          /\ last'.data = Unharmed.last.data
          /\ last'.calls = Unharmed.last.calls
          /\ last'.saved = Unharmed.last.saved
          /\ cache' = Unharmed.cache
          /\ \A k \in last'.lost : RowsOf(store', k[1], k[2]) = RowsOf(store, k[1], k[2])
          /\ \E p \in last'.data :
                \A k \in last'.saved \ last'.lost :
                    RowsOf(store', k[1], k[2])
                        = {[target |-> k[1], date |-> k[2],
                            rate |-> Quantize(p.rates[k[2]][k[1]])]}]_vars

\* a response with fetched rates of which some were saved and some were not
C17_Witness ==
    /\ last.status = 200
    /\ last.lost # {}
    /\ last.saved \ last.lost # {}
    /\ \A k \in last.saved \ last.lost : RowsOf(store, k[1], k[2]) # {}
    /\ \E k \in last.lost : RowsOf(store, k[1], k[2]) = {}

\* ------------------------------------------------------------ self-healing
\* d lies in an interval the Gap Finder returns
InGap(gaps, d) == \E i \in DOMAIN gaps : gaps[i][1] <= d /\ d <= gaps[i][2]

\* C18: when the save of a fetched point (target, d) failed, the next request
\* that misses the cache and asks for that target over an interval containing d
\* finds d missing again (the coverage check does not report the interval
\* covered, the Gap Finder returns an interval containing d) and asks upstream
\* for d again
C18_SelfHealing ==
    [][Missed =>
        LET r == last'.req
        IN  \A k \in unsaved :
               (k[1] \in Asked(r) /\ k[2] >= Lo(r) /\ k[2] <= Hi(r)) =>
                  /\ ~DatabaseCoversRange(store, r.symbols, Lo(r), Hi(r))
                  /\ InGap(FindMissingDateRanges(store, k[1], Lo(r), Hi(r)), k[2])
                  /\ k \in last'.again]_vars

\* ------------------------------------------------------ open-ended requests
\* C19: for a request without end_date the coverage check and the gap
\* computation run up to today, and the end_date echoed in the envelope of a
\* database, partial_fetch or frankfurter_api response stays unspecified
C19_OpenEndEchoed ==
    [][Missed /\ last'.status = 200 /\ last'.req.end_date = NoDate =>
        LET r == last'.req
        IN  /\ last'.db = "full" =>
                  DatabaseCoversRange(store, r.symbols, r.start_date, Today)
            /\ \A t \in DOMAIN last'.missing :
                  last'.missing[t] = FindMissingDateRanges(store, t, r.start_date, Today)
            /\ \A p \in last'.data : p.end_date = NoDate]_vars

\* ------------------------------------------------------- response envelope
\* the members of the response envelope
EnvelopeKeys == {"base", "start_date", "end_date", "rates"}

\* p has the envelope shape: its four members, rates as date -> target -> rate
IsEnvelope(p) ==
    /\ DOMAIN p = EnvelopeKeys
    /\ p.base = BaseCur
    /\ \A d \in DOMAIN p.rates :
          /\ d \in Days
          /\ DOMAIN p.rates[d] \subseteq Targets
          /\ \A t \in DOMAIN p.rates[d] : p.rates[d][t] \in Nat

\* C20: the data of every success response and every cached payload has the
\* envelope shape whichever of cache, database, partial_fetch and
\* frankfurter_api produced it, the bookkeeping member fetched_dates is in none
\* of them, and the source tag of a success response is one of those four
C20_EnvelopeShape ==
    /\ \A p \in last.data \cup last.cacheSet \cup Range(cache) :
          /\ IsEnvelope(p)
          /\ "fetched_dates" \notin DOMAIN p
    /\ last.status = 200 =>
          /\ last.data # {}
          /\ last.source \in {"cache", "database", "partial_fetch", "frankfurter_api"}

\* ------------------------------------------------- termination of a request
\* what the call has consulted so far is the cache, then the store, then upstream
InOrder(read) ==
    /\ read # <<>> => read[1] = "cache"
    /\ \A i \in DOMAIN read :
          /\ read[i] = "cache" => i = 1
          /\ read[i] = "store" => i = 2
          /\ read[i] = "upstream" => i > 2 /\ read[2] = "store"

\* the call has returned a tagged response or an error response
Terminal(me) ==
    /\ me.pc = "done"
    /\ \/ /\ me.status = 200
          /\ me.source \in {"cache", "database", "partial_fetch", "frankfurter_api"}
          /\ me.payload # {}
       \/ /\ me.status = 500
          /\ me.source = "error"
          /\ me.payload = {}

\* C21: a valid request starts at the cache lookup and, whatever the store
\* holds and whichever upstream requests fail, ends after finitely many steps
\* in a tagged response or an error response (the day-by-day scan of the gap
\* finder ends for every interval); the store is read only after a cache miss
\* and upstream is called only after the store was consulted
C21_ReachesTerminal ==
    /\ clients[FlowId].pc = "cache_get" /\ clients[FlowId].read = <<>>
    /\ <>Terminal(clients[FlowId])
    /\ [](clients[FlowId].pc = "done" => Terminal(clients[FlowId]))
    /\ [](/\ InOrder(clients[FlowId].read)
          /\ Len(clients[FlowId].read) > 1 =>
                GetCachedData(clients[FlowId].cache0,
                              GenerateCacheKey("time_series",
                                               CacheParams(clients[FlowId].req))) = {})

\* a request that scanned for gaps, saw one of two fetches fail and returned
C21_Witness ==
    /\ clients[FlowId].pc = "done"
    /\ clients[FlowId].source = "partial_fetch"
    /\ Len(clients[FlowId].calls) >= 2
    /\ Cardinality(clients[FlowId].failed) = 1

\* ------------------------------------------------- when intervals coalesce
\* the sorted list s starts a new interval at k: the first entry, or one that
\* leaves an uncovered day after everything before it
StartsNew(s, k) == k = 1 \/ s[k][1] > Max({s[j][2] : j \in 1..(k - 1)}) + 1

\* the entries of s from k up to the next one that starts a new interval
RunFrom(s, k) ==
    {j \in k..Len(s) : \A i \in (k + 1)..j : ~StartsNew(s, i)}

\* C22: _merge_overlapping_ranges coalesces an interval with what was
\* accumulated before it exactly when its start is <= the accumulated end + 1
\* day; with an uncovered day in between the intervals stay separate.  Gaps
\* (1,3), (5,5), (6,8) merge to (1,3), (5,8).
C22_CoalesceRule ==
    /\ MergeOverlappingRanges(<<<<1, 3>>, <<5, 5>>, <<6, 8>>>>) = <<<<1, 3>>, <<5, 8>>>>
    /\ mcall.done =>
          LET s == SortRanges(mcall.input)
              heads == {k \in DOMAIN s : StartsNew(s, k)}
              out == mcall.output
          IN  /\ Len(out) = Cardinality(heads)
              /\ \A k \in heads :
                    \E i \in DOMAIN out :
                       /\ i = Cardinality({h \in heads : h <= k})
                       /\ out[i][1] = s[k][1]
                       /\ out[i][2] = Max({s[j][2] : j \in RunFrom(s, k)})

\* a list with one uncovered day before its second interval and none before
\* its third, as in the example
C22_Witness ==
    /\ mcall.done
    /\ Len(mcall.input) = 3
    /\ mcall.input[2][1] = mcall.input[1][2] + 2
    /\ mcall.input[3][1] = mcall.input[2][2] + 1
    /\ Len(mcall.output) = 2

\* --------------------------------------------- what the partial stage fetches
\* the partial stage ran and answered
PartialStageRan == Missed /\ last'.source = "partial_fetch"

\* the dates the upstream requests of target t ask for
FetchedFor(calls, t) ==
    UNION {calls[i].lo..calls[i].hi : i \in {j \in DOMAIN calls : calls[j].symbols = <<t>>}}

\* C23: in the partial stage with explicit targets the upstream requests for a
\* target t ask for exactly the dates of the requested interval without a
\* stored row of t when the gaps were computed (no stored date of t lies in a
\* fetched interval, every missing date lies in one); with no explicit targets
\* exactly one request for the whole requested interval is issued
C23_FetchesExactlyGaps ==
    [][PartialStageRan =>
        LET r == last'.req
            calls == last'.calls
        IN  IF r.symbols # <<>>
            THEN /\ \A i \in DOMAIN calls :
                       \E t \in Asked(r) : calls[i].symbols = <<t>>
                 /\ \A t \in Asked(r) :
                       FetchedFor(calls, t) = Absent(store, t, Lo(r), Hi(r))
            ELSE calls = <<[symbols |-> <<>>, lo |-> Lo(r), hi |-> Hi(r)]>>]_vars

\* a request for two targets with different gaps, each fetched on its own
C23_Witness ==
    /\ last.source = "partial_fetch"
    /\ last.req.symbols = <<"USD", "GBP">>
    /\ FetchedFor(last.calls, "USD") # {}
    /\ FetchedFor(last.calls, "GBP") # {}
    /\ FetchedFor(last.calls, "USD") # FetchedFor(last.calls, "GBP")

\* ---------------------------------------------- what the partial stage saves
\* C24: in the partial stage every point upstream returned in this request is
\* upserted, and save_exchange_rate is called for no (target, date) that
\* upstream did not return in this request: rows that were only read from the
\* store are neither written nor changed
C24_SavesOnlyFetched ==
    [][PartialStageRan =>
        /\ \A t \in Targets : \A d \in Days :
              Fetched(t, d) =>
                 /\ <<t, d>> \in last'.saved
                 /\ RowsOf(store', t, d) =
                       {[target |-> t, date |-> d, rate |-> Quantize(UpRate(t, d))]}
        /\ \A k \in last'.saved : Fetched(k[1], k[2])
        /\ \A x \in store : ~Fetched(x.target, x.date) => x \in store']_vars

\* ------------------------------------------------ what the cache holds after
\* C25: after a success response not tagged cache the payload stored under the
\* request's cache key equals the data of the response; a request answered
\* with an error (validation, fatal fetch failure, server error) leaves the
\* cache as it was
C25_CacheHoldsResponse ==
    [][Handled =>
        /\ (last'.status = 200 /\ last'.source \in Success) =>
              /\ KeyOf(last'.req) \in DOMAIN cache'
              /\ last'.data = {cache'[KeyOf(last'.req)]}
              /\ last'.cacheSet = last'.data
        /\ last'.status # 200 => cache' = cache /\ last'.cacheSet = {}]_vars

\* a partial fetch whose merged payload is in the cache under the request's key
C25_Witness ==
    /\ last.source = "partial_fetch"
    /\ last.failed # {}
    /\ KeyOf(last.req) \in DOMAIN cache
    /\ last.data = {cache[KeyOf(last.req)]}

\* ------------------------------------------------ merging what the gap finder returns
\* C26: a list G returned by find_missing_date_ranges is left as it is by
\* _merge_overlapping_ranges: G is sorted, its intervals neither overlap nor
\* touch, and merging issues as many upstream requests as G has intervals
C26_GapsAlreadyMerged ==
    gcall.done =>
        /\ MergeOverlappingRanges(gcall.gaps) = gcall.gaps
        /\ Len(TargetCalls(gcall.target, MergeOverlappingRanges(gcall.gaps)))
              = Len(gcall.gaps)

\* two gaps with one stored day between them
C26_Witness ==
    /\ gcall.done
    /\ Len(gcall.gaps) = 2
    /\ gcall.gaps[2][1] = gcall.gaps[1][2] + 2

====
